---- MODULE Spec2Model ----
(***************************************************************************)
(* Model of app.py (the AI Resume & Portfolio Builder): the text passes,   *)
(* the field formatters, the renderers, the scoring call, the portfolio    *)
(* gate and the session (generation, editor, Save changes, exports).       *)
(*                                                                         *)
(* Representation of Python strings.  A string is a sequence of symbols.   *)
(* A symbol is either a single character the code inspects on its own      *)
(* (space, newline, colon, dash, slash, pipe, the em/en dashes) or a word: *)
(* a maximal run of letters, which the code only ever upper-cases or       *)
(* compares as a whole.  "" is << >>, "- x" is << "-", " ", "x" >>.        *)
(***************************************************************************)
EXTENDS Integers, Sequences, FiniteSets, TLC

VARIABLES
    text,   \* the text handed to a normalization pass
    line,   \* the line handed to normalize_heading
    rec,    \* the entry record handed to a field formatter
    hdr,    \* the header block of a final text (a sequence of lines)
    doc,    \* the section document of a final text: <<[heading, body], ...>>
    out,    \* the value returned by the last operation
    op,     \* the last operation applied ("none" before any)
    form,        \* the form snapshot: the value of every form field
    HF_TOKEN,    \* the model credential read from the environment
    final_text,  \* st.session_state["final_text"]: << >> absent, << t >> present
    editor       \* st.session_state["editor"]: << >> absent, << t >> present

vars == <<text, line, rec, hdr, doc, out, op, form, HF_TOKEN, final_text, editor>>

\* ------------------------------------------------------------------ bounds
MaxLines == 4      \* lines of a text handed to a normalization pass
MaxLineLen == 4    \* symbols of a line handed to normalize_heading
MaxSections == 2   \* sections of a serialized final text

\* ----------------------------------------------------------------- symbols
SP == " "
NL == "\n"
COLON == ":"
DASH == "-"
SLASH == "/"
PIPE == "|"
EMDASH == "EM-DASH"    \* U+2014
ENDASH == "EN-DASH"    \* U+2013
BULLET_DOT == "U+2022" \* the round bullet
RSQUOTE == "U+2019"    \* right single quotation mark
LSQUOTE == "U+2018"    \* left single quotation mark
LDQUOTE == "U+201C"    \* left double quotation mark
RDQUOTE == "U+201D"    \* right double quotation mark
NBSP == "U+00A0"       \* no-break space
EACUTE == "U+00E9"     \* a letter outside ASCII, standing for any other such character

\* str.upper() on one symbol: words are upper-cased, everything else is kept.
UpperSym(c) ==
    CASE c = "x" -> "X"
      [] c = "skills" -> "SKILLS"
      [] c = "Skills" -> "SKILLS"
      [] c = "education" -> "EDUCATION"
      [] c = "professional" -> "PROFESSIONAL"
      [] c = "overview" -> "OVERVIEW"
      [] OTHER -> c

\* str.upper()
Upper(s) == [k \in 1..Len(s) |-> UpperSym(s[k])]

\* Python's whitespace test (str.isspace on one character).
IsSpace(c) == c \in {SP, NL, NBSP}

\* str.lstrip()
RECURSIVE LStrip(_)
LStrip(s) ==
    IF s = << >> THEN << >>
    ELSE IF IsSpace(Head(s)) THEN LStrip(Tail(s)) ELSE s

\* str.rstrip()
RECURSIVE RStrip(_)
RStrip(s) ==
    IF s = << >> THEN << >>
    ELSE IF IsSpace(s[Len(s)]) THEN RStrip(SubSeq(s, 1, Len(s) - 1)) ELSE s

\* str.strip()
Strip(s) == LStrip(RStrip(s))

\* str.rstrip(":"): every trailing colon is removed.
RECURSIVE RStripColons(_)
RStripColons(s) ==
    IF s = << >> THEN << >>
    ELSE IF s[Len(s)] = COLON THEN RStripColons(SubSeq(s, 1, Len(s) - 1)) ELSE s

\* s.startswith(p)
StartsWith(s, p) == Len(s) >= Len(p) /\ SubSeq(s, 1, Len(p)) = p

\* s.endswith(":")
EndsWithColon(s) == s # << >> /\ s[Len(s)] = COLON

\* Index of the first newline of t, 0 when there is none.
RECURSIVE FirstNL(_, _)
FirstNL(t, k) ==
    IF k > Len(t) THEN 0
    ELSE IF t[k] = NL THEN k ELSE FirstNL(t, k + 1)

\* str.splitlines(): a final newline ends the last line, it opens no new one.
RECURSIVE SplitLines(_)
SplitLines(t) ==
    IF t = << >> THEN << >>
    ELSE LET k == FirstNL(t, 1) IN
         IF k = 0 THEN << t >>
         ELSE << SubSeq(t, 1, k - 1) >> \o SplitLines(SubSeq(t, k + 1, Len(t)))

\* "\n".join(lines)
RECURSIVE JoinLines(_)
JoinLines(ls) ==
    IF ls = << >> THEN << >>
    ELSE IF Len(ls) = 1 THEN ls[1]
    ELSE ls[1] \o << NL >> \o JoinLines(Tail(ls))

\* sep.join(ls)
RECURSIVE JoinWith(_, _)
JoinWith(ls, sep) ==
    IF ls = << >> THEN << >>
    ELSE IF Len(ls) = 1 THEN ls[1]
    ELSE ls[1] \o sep \o JoinWith(Tail(ls), sep)

\* ---------------------------------------------------------------- headings
PROFESSIONAL_OVERVIEW == << "PROFESSIONAL", SP, "OVERVIEW" >>

HEADINGS ==
    { PROFESSIONAL_OVERVIEW,
      << "EDUCATION" >>,
      << "SKILLS" >>,
      << "EXPERIENCE", SP, SLASH, SP, "INTERNSHIPS" >>,
      << "PROJECTS" >>,
      << "PUBLICATIONS" >>,
      << "CERTIFICATIONS", SP, SLASH, SP, "HANDS", DASH, "ON" >>,
      << "ACHIEVEMENTS" >>,
      << "PARTICIPATIONS" >>,
      << "POSITIONS", SP, "OF", SP, "RESPONSIBILITY", SP, SLASH, SP,
         "CO", DASH, "CURRICULAR", SP, "INVOLVEMENT" >>,
      << "TARGET", SP, "ROLE" >> }

BULLET_SECTIONS ==
    { << "SKILLS" >>,
      << "PUBLICATIONS" >>,
      << "CERTIFICATIONS", SP, SLASH, SP, "HANDS", DASH, "ON" >>,
      << "ACHIEVEMENTS" >>,
      << "PARTICIPATIONS" >> }

BULLET == << DASH, SP >>

\* normalize_heading with its first two steps swapped: the colon is looked
\* for before the whitespace is stripped.
normalize_heading_colon_first(l) ==
    Upper(Strip(IF EndsWithColon(l) THEN SubSeq(l, 1, Len(l) - 1) ELSE l))

\* normalize_heading: strip, drop ONE trailing colon, upper-case.
normalize_heading(l) ==
    LET s == Strip(l) IN
    Upper(IF EndsWithColon(s) THEN SubSeq(s, 1, Len(s) - 1) ELSE s)

\* The heading membership test: normalize_heading(l) in HEADINGS.
IsHeading(l) == normalize_heading(l) \in HEADINGS

\* ----------------------------------------------------------- menu stripping
\* MenuScan with the assignment "i = j + 1" lost: heading lines are recognised
\* but never dropped.
RECURSIVE MenuScanKeepsMenu(_, _, _)
MenuScanKeepsMenu(lines, j, i) ==
    IF j > Len(lines) THEN [i |-> i, saw |-> FALSE]
    ELSE LET t == Strip(lines[j]) IN
         IF t = << >> THEN MenuScanKeepsMenu(lines, j + 1, i)
         ELSE IF normalize_heading(t) \in HEADINGS THEN MenuScanKeepsMenu(lines, j + 1, i)
         ELSE [i |-> i, saw |-> TRUE]

\* The for-loop of strip_heading_menu over lines[j..]; i is the number of
\* leading lines to drop (Python's i), saw is saw_non_heading.
RECURSIVE MenuScan(_, _, _)
MenuScan(lines, j, i) ==
    IF j > Len(lines) THEN [i |-> i, saw |-> FALSE]
    ELSE LET t == Strip(lines[j]) IN
         IF t = << >> THEN MenuScan(lines, j + 1, i)
         ELSE IF normalize_heading(t) \in HEADINGS THEN MenuScan(lines, j + 1, j)
         ELSE [i |-> i, saw |-> TRUE]

\* strip_heading_menu with the final .strip() lost.
strip_heading_menu_unstripped(t) ==
    LET lines == SplitLines(t)
        r == MenuScan(lines, 1, 0)
    IN IF r.saw THEN JoinLines(SubSeq(lines, r.i + 1, Len(lines)))
       ELSE << >>

strip_heading_menu(t) ==
    LET lines == SplitLines(t)
        r == MenuScan(lines, 1, 0)
    IN IF r.saw THEN Strip(JoinLines(SubSeq(lines, r.i + 1, Len(lines))))
       ELSE << >>

\* ------------------------------------------------------ first-heading ensurer
\* Index of the first line that is not blank, Len(lines) + 1 when all are.
RECURSIVE FirstNonBlank(_, _)
FirstNonBlank(lines, i) ==
    IF i > Len(lines) THEN i
    ELSE IF Strip(lines[i]) = << >> THEN FirstNonBlank(lines, i + 1) ELSE i

\* del lines[k]
DelAt(lines, k) == SubSeq(lines, 1, k - 1) \o SubSeq(lines, k + 1, Len(lines))

\* lines.insert(k, l), k the 1-based position the new line takes
InsertAt(lines, k, l) ==
    SubSeq(lines, 1, k - 1) \o << l >> \o SubSeq(lines, k, Len(lines))

\* The test "first != heading" of ensure_first_section_heading: it strips
\* EVERY trailing colon (rstrip(":")), unlike normalize_heading.
FirstIsHeading(l, heading) == Upper(RStripColons(Strip(l))) = heading

\* "if i + 1 < len(lines) and not lines[i + 1].strip(): del lines[i + 1]"
CollapseAfter(lines, i) ==
    IF i + 1 <= Len(lines) /\ Strip(lines[i + 1]) = << >>
    THEN DelAt(lines, i + 1) ELSE lines

ensure_first_section_heading(t, heading) ==
    LET raw == SplitLines(t)
        lines == [k \in 1..Len(raw) |-> RStrip(raw[k])]
        i == FirstNonBlank(lines, 1)
    IN IF i = Len(lines) + 1 THEN heading \o << NL >>
       ELSE IF ~FirstIsHeading(lines[i], heading)
            THEN JoinLines(CollapseAfter(InsertAt(lines, i, heading), i))
            ELSE JoinLines(CollapseAfter(lines, i))

\* ------------------------------------------------------------ bullet enforcer
\* BulletStep with the branch that clears in_block at a non-list heading lost.
BulletStepNeverLeaves(raw, in_block) ==
    LET ln == RStrip(raw)
        up == normalize_heading(ln)
        s == Strip(ln)
    IN IF up \in BULLET_SECTIONS THEN [ln |-> up, in_block |-> TRUE]
       ELSE IF in_block /\ s # << >> /\ ~StartsWith(s, BULLET)
            THEN [ln |-> BULLET \o s, in_block |-> in_block]
       ELSE [ln |-> ln, in_block |-> in_block]

\* The body of the for-loop of enforce_bullets_in_sections for one raw line:
\* the line appended to out and the new value of in_block.
BulletStep(raw, in_block) ==
    LET ln == RStrip(raw)
        up == normalize_heading(ln)
        s == Strip(ln)
    IN IF up \in BULLET_SECTIONS THEN [ln |-> up, in_block |-> TRUE]
       ELSE IF in_block /\ up \in HEADINGS THEN [ln |-> up, in_block |-> FALSE]
       ELSE IF in_block /\ s # << >> /\ ~StartsWith(s, BULLET)
            THEN [ln |-> BULLET \o s, in_block |-> in_block]
       ELSE [ln |-> ln, in_block |-> in_block]

RECURSIVE BulletLoop(_, _)
BulletLoop(lines, in_block) ==
    IF lines = << >> THEN << >>
    ELSE LET r == BulletStep(Head(lines), in_block) IN
         << r.ln >> \o BulletLoop(Tail(lines), r.in_block)

enforce_bullets_in_sections(t) == JoinLines(BulletLoop(SplitLines(t), FALSE))

\* ------------------------------------------------- inputs of the text passes
\* The line shapes a raw model reply is made of.
LineShapes ==
    { << >>,                                        \* ""
      << SP >>,                                     \* " "
      << "x" >>,                                    \* "x"
      << SP, "x", SP >>,                            \* " x "
      << DASH, SP, "x" >>,                          \* "- x"
      << "SKILLS" >>,                               \* "SKILLS"
      << SP, "skills", COLON >>,                    \* " skills:"
      << "EDUCATION" >>,                            \* "EDUCATION"
      PROFESSIONAL_OVERVIEW,                        \* "PROFESSIONAL OVERVIEW"
      PROFESSIONAL_OVERVIEW \o << COLON, COLON >> } \* "PROFESSIONAL OVERVIEW::"

LineSeqs == UNION { [1..n -> LineShapes] : n \in 0..MaxLines }

\* Every text of at most MaxLines lines, with and without a final newline.
Texts == { JoinLines(ls) \o e : ls \in LineSeqs, e \in { << >>, << NL >> } }

None == << >>

InitPasses ==
    /\ text \in Texts
    /\ line = None /\ rec = None /\ hdr = None /\ doc = None
    /\ form = None /\ HF_TOKEN = None /\ final_text = None /\ editor = None
    /\ out = None
    /\ op = "none"

StripHeadingMenu ==
    /\ op = "none"
    /\ out' = strip_heading_menu(text)
    /\ op' = "strip_heading_menu"
    /\ UNCHANGED <<text, line, rec, hdr, doc, form, HF_TOKEN, final_text, editor>>

EnsureFirstSectionHeading ==
    /\ op = "none"
    /\ out' = ensure_first_section_heading(text, PROFESSIONAL_OVERVIEW)
    /\ op' = "ensure_first_section_heading"
    /\ UNCHANGED <<text, line, rec, hdr, doc, form, HF_TOKEN, final_text, editor>>

EnforceBulletsInSections ==
    /\ op = "none"
    /\ out' = enforce_bullets_in_sections(text)
    /\ op' = "enforce_bullets_in_sections"
    /\ UNCHANGED <<text, line, rec, hdr, doc, form, HF_TOKEN, final_text, editor>>

NextPasses ==
    \/ StripHeadingMenu
    \/ EnsureFirstSectionHeading
    \/ EnforceBulletsInSections

SpecPasses == InitPasses /\ [][NextPasses]_vars

\* ------------------------------------------------------- SpecNormalize
\* The symbols a line handed to normalize_heading is made of.
LineSymbols == { SP, COLON, "x", "skills", "Skills", "SKILLS" }

Lines == UNION { [1..n -> LineSymbols] : n \in 0..MaxLineLen }

InitNormalize ==
    /\ line \in Lines
    /\ text = None /\ rec = None /\ hdr = None /\ doc = None
    /\ form = None /\ HF_TOKEN = None /\ final_text = None /\ editor = None
    /\ out = None
    /\ op = "none"

NormalizeHeading ==
    /\ op = "none"
    /\ out' = normalize_heading(line)
    /\ op' = "normalize_heading"
    /\ UNCHANGED <<text, line, rec, hdr, doc, form, HF_TOKEN, final_text, editor>>

NextNormalize == NormalizeHeading

SpecNormalize == InitNormalize /\ [][NextNormalize]_vars

\* C8 (as claimed): normalize_heading is idempotent on every line.
C8_NormalizeIdempotent ==
    op = "normalize_heading" => normalize_heading(out) = out

\* C8 (amended): normalize_heading is idempotent on every line that, once
\* stripped, does not end in two colons or in whitespace followed by a colon;
\* every line that normalizes to a known heading is such a line.
C8_NormalizeIdempotentOnHeadings ==
    op = "normalize_heading" =>
        LET s == Strip(line)
            n == Len(s)
            twice == n >= 2 /\ s[n] = COLON /\ (s[n - 1] = COLON \/ IsSpace(s[n - 1]))
        IN /\ ~twice => normalize_heading(out) = out
           /\ out \in HEADINGS => ~twice

\* C8 witness: " skills:" was normalized to the known heading SKILLS.
C8_Witness ==
    /\ op = "normalize_heading"
    /\ line = << SP, "skills", COLON >>
    /\ out = << "SKILLS" >>

\* ------------------------------------------------------------- formatters
\* Python truthiness of a string: it is not "".
Truthy(v) == v # << >>

\* "v and v.strip()": the string holds a character that is not whitespace.
NonBlank(v) == Truthy(v) /\ Strip(v) # << >>

\* [v for v in vals if flag]: the one-element list, or the empty one.
If(flag, v) == IF flag THEN << v >> ELSE << >>

\* [v for v in vals if v]
RECURSIVE KeepTruthy(_)
KeepTruthy(vals) ==
    IF vals = << >> THEN << >>
    ELSE If(Truthy(Head(vals)), Head(vals)) \o KeepTruthy(Tail(vals))

\* [v for v in vals if v and v.strip()]
RECURSIVE KeepNonBlank(_)
KeepNonBlank(vals) ==
    IF vals = << >> THEN << >>
    ELSE If(NonBlank(Head(vals)), Head(vals)) \o KeepNonBlank(Tail(vals))

\* join_nonempty with the filter reduced to "if v": blank strings are kept.
join_nonempty_keeps_blank(vals, sep) == JoinWith(KeepTruthy(vals), sep)

\* join_nonempty(vals, sep)
join_nonempty(vals, sep) == JoinWith(KeepNonBlank(vals), sep)

\* any(e.values())
AnyValue(e) == \E f \in DOMAIN e : Truthy(e[f])

SEP_PIPE == << SP, PIPE, SP >>        \* " | "
SEP_EMDASH == << SP, EMDASH, SP >>    \* " — "
SEP_ENDASH == << SP, ENDASH, SP >>    \* " – "
SEP_COMMA == << ",", SP >>            \* ", "

\* f"- {label}: {v}"
Labelled(label, v) == BULLET \o label \o << COLON, SP >> \o v

fmt_edu(e) ==
    IF ~AnyValue(e) THEN << >>
    ELSE LET date_line == join_nonempty(<< e.start, e.end >>, SEP_ENDASH)
             bits ==
                 (IF Truthy(e.inst) /\ Truthy(e.degree)
                  THEN << e.inst \o SEP_EMDASH \o e.degree >>
                  ELSE IF Truthy(e.inst) THEN << e.inst >>
                  ELSE IF Truthy(e.degree) THEN << e.degree >>
                  ELSE << >>)
                 \o If(Truthy(e.cgpa), << "CGPA", SP >> \o e.cgpa)
                 \o If(Truthy(date_line), date_line)
         IN JoinWith(bits, SEP_PIPE)

\* fmt_exp with the test "if when" lost: the pipe is always appended.
fmt_exp_always_pipe(e) ==
    IF ~AnyValue(e) THEN << >>
    ELSE LET when == join_nonempty(<< e.start, e.end >>, SEP_ENDASH)
             header == join_nonempty(<< e.company, e.role >>, SEP_EMDASH)
             line1 == header \o SEP_PIPE \o when
         IN JoinLines(<< line1 >> \o If(Truthy(e.desc), BULLET \o e.desc))

fmt_exp(e) ==
    IF ~AnyValue(e) THEN << >>
    ELSE LET when == join_nonempty(<< e.start, e.end >>, SEP_ENDASH)
             header == join_nonempty(<< e.company, e.role >>, SEP_EMDASH)
             line1 == IF Truthy(when) THEN header \o SEP_PIPE \o when ELSE header
         IN JoinLines(<< line1 >> \o If(Truthy(e.desc), BULLET \o e.desc))

fmt_proj(p) ==
    IF ~AnyValue(p) THEN << >>
    ELSE JoinLines(
             If(Truthy(p.title), p.title)
             \o If(Truthy(p.problem), Labelled(<< "Problem" >>, p.problem))
             \o If(Truthy(p.approach), Labelled(<< "Approach" >>, p.approach))
             \o If(Truthy(p.tech), Labelled(<< "Tech", SLASH, "Tools" >>, p.tech))
             \o If(Truthy(p.impact), Labelled(<< "Impact" >>, p.impact))
             \o If(Truthy(p.link), Labelled(<< "Link" >>, p.link)))

fmt_pub(p) ==
    IF ~AnyValue(p) THEN << >>
    ELSE JoinLines(
             If(Truthy(p.title), p.title)
             \o If(Truthy(p.authors), Labelled(<< "Authors" >>, p.authors))
             \o If(Truthy(p.venue) \/ Truthy(p.year),
                   Labelled(<< "Venue", SLASH, "Year" >>,
                            join_nonempty(<< p.venue, p.year >>, SEP_COMMA)))
             \o If(Truthy(p.summary), Labelled(<< "Summary" >>, p.summary))
             \o If(Truthy(p.link), Labelled(<< "Link" >>, p.link)))

fmt_por(p) ==
    IF ~AnyValue(p) THEN << >>
    ELSE LET head == join_nonempty(<< p.role, p.org, p.when >>, SEP_PIPE)
         IN JoinLines(<< head >> \o If(Truthy(p.det), BULLET \o p.det))

\* --------------------------------------------------------------- SpecFormat
\* What a form field may hold: nothing, a blank, or one of two values.
FieldValues == { << >>, << SP >>, << "a" >>, << "b" >> }

EduRecords == [{"inst", "degree", "cgpa", "start", "end"} -> FieldValues]
ExpRecords == [{"company", "role", "start", "end", "desc"} -> FieldValues]
ProjRecords ==
    [{"title", "problem", "approach", "tech", "impact", "link"} -> FieldValues]
PubRecords ==
    [{"title", "authors", "venue", "year", "summary", "link"} -> FieldValues]
PorRecords == [{"role", "org", "when", "det"} -> FieldValues]

InitFormat ==
    /\ text = None /\ line = None /\ rec = None /\ hdr = None /\ doc = None
    /\ form = None /\ HF_TOKEN = None /\ final_text = None /\ editor = None
    /\ out = None
    /\ op = "none"

FmtEdu ==
    /\ op = "none"
    /\ \E e \in EduRecords : rec' = e /\ out' = fmt_edu(e)
    /\ op' = "fmt_edu"
    /\ UNCHANGED <<text, line, hdr, doc, form, HF_TOKEN, final_text, editor>>

FmtExp ==
    /\ op = "none"
    /\ \E e \in ExpRecords : rec' = e /\ out' = fmt_exp(e)
    /\ op' = "fmt_exp"
    /\ UNCHANGED <<text, line, hdr, doc, form, HF_TOKEN, final_text, editor>>

FmtProj ==
    /\ op = "none"
    /\ \E p \in ProjRecords : rec' = p /\ out' = fmt_proj(p)
    /\ op' = "fmt_proj"
    /\ UNCHANGED <<text, line, hdr, doc, form, HF_TOKEN, final_text, editor>>

FmtPub ==
    /\ op = "none"
    /\ \E p \in PubRecords : rec' = p /\ out' = fmt_pub(p)
    /\ op' = "fmt_pub"
    /\ UNCHANGED <<text, line, hdr, doc, form, HF_TOKEN, final_text, editor>>

FmtPor ==
    /\ op = "none"
    /\ \E p \in PorRecords : rec' = p /\ out' = fmt_por(p)
    /\ op' = "fmt_por"
    /\ UNCHANGED <<text, line, hdr, doc, form, HF_TOKEN, final_text, editor>>

NextFormat == FmtEdu \/ FmtExp \/ FmtProj \/ FmtPub \/ FmtPor

SpecFormat == InitFormat /\ [][NextFormat]_vars

Formatters == { "fmt_edu", "fmt_exp", "fmt_proj", "fmt_pub", "fmt_por" }

\* The first line of a text ("" for the empty text).
FirstLine(t) == IF SplitLines(t) = << >> THEN << >> ELSE SplitLines(t)[1]

\* C5 (as claimed): every field formatter returns the empty string when every
\* field of its record is empty or holds only whitespace.
C5_BlankRecordGivesEmpty ==
    (op \in Formatters /\ \A f \in DOMAIN rec : ~NonBlank(rec[f])) => out = << >>

\* C6 (as claimed): for an education record whose five fields are all
\* non-empty, fmt_edu returns "<inst> EM-DASH <degree> | CGPA <cgpa> |
\* <start> EN-DASH <end>".
C6_EduFullLine ==
    (op = "fmt_edu" /\ \A f \in DOMAIN rec : Truthy(rec[f])) =>
        out = rec.inst \o SEP_EMDASH \o rec.degree \o SEP_PIPE
              \o << "CGPA", SP >> \o rec.cgpa \o SEP_PIPE
              \o rec.start \o SEP_ENDASH \o rec.end

\* C6 (amended): the line fmt_edu returns is made of up to three segments
\* joined by " | ": institute and degree (joined by the em dash when both are
\* non-empty, else the one that is), "CGPA <cgpa>" when the CGPA is non-empty,
\* and the start and end that are not blank (joined by the en dash when both
\* are non-blank); a missing segment leaves no separator behind.  With
\* institute, degree and CGPA non-empty and start and end non-blank this is
\* the full line of the claim.
C6_EduSegments ==
    op = "fmt_edu" =>
        LET pair == IF Truthy(rec.inst) /\ Truthy(rec.degree)
                    THEN rec.inst \o SEP_EMDASH \o rec.degree
                    ELSE rec.inst \o rec.degree
            cgpa == IF Truthy(rec.cgpa) THEN << "CGPA", SP >> \o rec.cgpa ELSE << >>
            dates == IF NonBlank(rec.start) /\ NonBlank(rec.end)
                     THEN rec.start \o SEP_ENDASH \o rec.end
                     ELSE IF NonBlank(rec.start) THEN rec.start
                     ELSE IF NonBlank(rec.end) THEN rec.end
                     ELSE << >>
            pc == IF Truthy(pair) /\ Truthy(cgpa) THEN SEP_PIPE ELSE << >>
            cd == IF (Truthy(pair) \/ Truthy(cgpa)) /\ Truthy(dates)
                  THEN SEP_PIPE ELSE << >>
        IN /\ out = pair \o pc \o cgpa \o cd \o dates
           /\ (Truthy(rec.inst) /\ Truthy(rec.degree) /\ Truthy(rec.cgpa)
                   /\ NonBlank(rec.start) /\ NonBlank(rec.end)) =>
                  out = rec.inst \o SEP_EMDASH \o rec.degree \o SEP_PIPE
                        \o << "CGPA", SP >> \o rec.cgpa \o SEP_PIPE
                        \o rec.start \o SEP_ENDASH \o rec.end

\* C6 witness: the record of the end-to-end scenario, every field filled.
C6_Witness ==
    /\ op = "fmt_edu"
    /\ rec = [inst |-> << "a" >>, degree |-> << "b" >>, cgpa |-> << "a" >>,
              start |-> << "b" >>, end |-> << "a" >>]
    /\ out = << "a", SP, EMDASH, SP, "b", SP, PIPE, SP, "CGPA", SP, "a",
                SP, PIPE, SP, "b", SP, ENDASH, SP, "a" >>

\* The period of an experience entry: its non-blank start and end.
ExpPeriod(e) ==
    IF NonBlank(e.start) /\ NonBlank(e.end) THEN e.start \o SEP_ENDASH \o e.end
    ELSE IF NonBlank(e.start) THEN e.start
    ELSE IF NonBlank(e.end) THEN e.end
    ELSE << >>

\* C7 (as claimed): fmt_exp and fmt_por both join organization and role with
\* the em-dash separator when both are present, and append " | <period>" only
\* when a period is present.
C7_SameSeparator ==
    /\ (op = "fmt_exp" /\ NonBlank(rec.company) /\ NonBlank(rec.role)) =>
           FirstLine(out) =
               rec.company \o SEP_EMDASH \o rec.role
               \o (IF Truthy(ExpPeriod(rec)) THEN SEP_PIPE \o ExpPeriod(rec) ELSE << >>)
    /\ (op = "fmt_por" /\ NonBlank(rec.org) /\ NonBlank(rec.role)) =>
           FirstLine(out) =
               rec.org \o SEP_EMDASH \o rec.role
               \o (IF NonBlank(rec.when) THEN SEP_PIPE \o rec.when ELSE << >>)

\* C7 (amended): fmt_exp joins company and role with the em-dash separator
\* when both are present and appends " | <period>" only when a start or an end
\* is present; fmt_por uses no em dash: with role and organization present its
\* header line is "<role> | <org>", followed by " | <period>" only when a
\* period is present.
C7_ExpAndPorHeaders ==
    /\ (op = "fmt_exp" /\ NonBlank(rec.company) /\ NonBlank(rec.role)) =>
           FirstLine(out) =
               rec.company \o SEP_EMDASH \o rec.role
               \o (IF Truthy(ExpPeriod(rec)) THEN SEP_PIPE \o ExpPeriod(rec) ELSE << >>)
    /\ (op = "fmt_por" /\ NonBlank(rec.org) /\ NonBlank(rec.role)) =>
           FirstLine(out) =
               rec.role \o SEP_PIPE \o rec.org
               \o (IF NonBlank(rec.when) THEN SEP_PIPE \o rec.when ELSE << >>)

\* C7 witness: a position with role, organization and period, formatted with
\* pipes only.
C7_Witness ==
    /\ op = "fmt_por"
    /\ rec = [role |-> << "a" >>, org |-> << "b" >>, when |-> << "a" >>, det |-> << >>]
    /\ out = << "a", SP, PIPE, SP, "b", SP, PIPE, SP, "a" >>

\* -------------------------------------------------- portfolio section splitter
MaxHeaderLines == 4

\* The while-loop of extract_section_blocks that skips the header block: the
\* number of leading lines skipped, starting with i lines already skipped.
RECURSIVE SkipHeader(_, _)
SkipHeader(lines, i) ==
    IF i < Len(lines) /\ Strip(lines[i + 1]) # << >> /\ ~IsHeading(lines[i + 1])
    THEN IF i + 1 >= MaxHeaderLines THEN i + 1 ELSE SkipHeader(lines, i + 1)
    ELSE i

\* blocks[cur] = "\n".join(buf).strip()
PutBlock(blocks, cur, buf) ==
    [h \in DOMAIN blocks \cup {cur} |->
        IF h = cur THEN Strip(JoinLines(buf)) ELSE blocks[h]]

\* SplitStep with "buf = []" lost: a section keeps the lines of those before.
SplitStepKeepsBuf(st, ln) ==
    IF IsHeading(ln)
    THEN [cur |-> normalize_heading(ln),
          buf |-> st.buf,
          blocks |-> IF st.cur # None THEN PutBlock(st.blocks, st.cur, st.buf)
                     ELSE st.blocks,
          order |-> Append(st.order, normalize_heading(ln))]
    ELSE [st EXCEPT !.buf = Append(st.buf, ln)]

\* The body of the for-loop of extract_section_blocks for one line; cur is
\* None before the first heading.  buf is emptied only when a section is
\* stored, so what precedes the first heading stays in it.
SplitStep(st, ln) ==
    IF IsHeading(ln)
    THEN [cur |-> normalize_heading(ln),
          buf |-> IF st.cur # None THEN << >> ELSE st.buf,
          blocks |-> IF st.cur # None THEN PutBlock(st.blocks, st.cur, st.buf)
                     ELSE st.blocks,
          order |-> Append(st.order, normalize_heading(ln))]
    ELSE [st EXCEPT !.buf = Append(st.buf, ln)]

RECURSIVE SplitLoop(_, _)
SplitLoop(st, lines) ==
    IF lines = << >> THEN st
    ELSE SplitLoop(SplitStep(st, Head(lines)), Tail(lines))

\* extract_section_blocks(full_text): the pair (blocks, order).
extract_section_blocks(full_text) ==
    LET lines == SplitLines(full_text)
        i == SkipHeader(lines, 0)
        body == JoinLines(SubSeq(lines, i + 1, Len(lines)))
        st == SplitLoop([cur |-> None, buf |-> << >>, blocks |-> << >>,
                         order |-> << >>],
                        SplitLines(body))
    IN [blocks |-> IF st.cur # None THEN PutBlock(st.blocks, st.cur, st.buf)
                   ELSE st.blocks,
        order |-> st.order]

\* ----------------------------------------------------------------- SpecSplit
\* The four header lines build_header_lines can produce.
HeaderLines ==
    << << "NAME", SP, EMDASH, SP, "title" >>,
       << "city" >>,
       << "Email", COLON, SP, "e", SP, PIPE, SP, "Phone", COLON, SP, "p" >>,
       << "LinkedIn", COLON, SP, "l", SP, PIPE, SP, "GitHub", COLON, SP, "g" >> >>

\* The section bodies: none, one bullet, two bullets around a blank line, a
\* title line followed by a labelled bullet.
Bodies ==
    { << >>,
      << DASH, SP, "a" >>,
      << DASH, SP, "a", NL, NL, DASH, SP, "b" >>,
      << "t", NL, DASH, SP, "k", COLON, SP, "v" >> }

\* One section as it is written into the final text: "HEADING\nbody".
SectionText(sec) == sec.heading \o << NL >> \o sec.body

\* The final text: the header block, a blank line, the sections separated by
\* blank lines.
FinalText(h, d) ==
    JoinLines(h) \o << NL, NL >>
    \o JoinWith([k \in 1..Len(d) |-> SectionText(d[k])], << NL, NL >>)

InitSplit ==
    /\ hdr \in { SubSeq(HeaderLines, 1, n) : n \in 1..MaxHeaderLines }
    /\ doc = << >>
    /\ text = None /\ line = None /\ rec = None
    /\ form = None /\ HF_TOKEN = None /\ final_text = None /\ editor = None
    /\ out = None
    /\ op = "none"

\* One more section of the section document; a heading appears at most once.
AddSection ==
    /\ op = "none"
    /\ Len(doc) < MaxSections
    /\ \E h \in HEADINGS, b \in Bodies :
          /\ \A k \in 1..Len(doc) : doc[k].heading # h
          /\ doc' = Append(doc, [heading |-> h, body |-> b])
    /\ UNCHANGED <<text, line, rec, hdr, out, op, form, HF_TOKEN, final_text, editor>>

ExtractSectionBlocks ==
    /\ op = "none"
    /\ out' = extract_section_blocks(FinalText(hdr, doc))
    /\ op' = "extract_section_blocks"
    /\ UNCHANGED <<text, line, rec, hdr, doc, form, HF_TOKEN, final_text, editor>>

NextSplit == AddSection \/ ExtractSectionBlocks

SpecSplit == InitSplit /\ [][NextSplit]_vars

\* C9: from a final text made of a 1-4 line header block and sections with
\* distinct canonical headings, extract_section_blocks returns a mapping whose
\* non-empty entries are exactly the sections with a non-empty body, each
\* mapped to its own body.
C9_SplitRoundTrip ==
    op = "extract_section_blocks" =>
        LET full == { k \in 1..Len(doc) : doc[k].body # << >> }
        IN /\ { h \in DOMAIN out.blocks : out.blocks[h] # << >> }
                = { doc[k].heading : k \in full }
           /\ \A k \in full : out.blocks[doc[k].heading] = doc[k].body

\* C9 witness: a four-line header, then SKILLS with two bullets around a blank
\* line and an EDUCATION section with an empty body.
C9_Witness ==
    /\ op = "extract_section_blocks"
    /\ Len(hdr) = 4
    /\ doc = << [heading |-> << "SKILLS" >>,
                 body |-> << DASH, SP, "a", NL, NL, DASH, SP, "b" >>],
                [heading |-> << "EDUCATION" >>, body |-> << >>] >>
    /\ DOMAIN out.blocks = { << "SKILLS" >>, << "EDUCATION" >> }
    /\ out.blocks[<< "EDUCATION" >>] = << >>

\* ------------------------------------------------ claims on the text passes
\* Index of the first line that is neither blank nor a known heading, 0 when
\* the text has none.
RECURSIVE FirstContentLine(_, _)
FirstContentLine(lines, k) ==
    IF k > Len(lines) THEN 0
    ELSE IF Strip(lines[k]) # << >> /\ ~IsHeading(lines[k]) THEN k
    ELSE FirstContentLine(lines, k + 1)

\* The text from the start of its k-th line to its end, character for character.
RECURSIVE FromLine(_, _)
FromLine(t, k) ==
    IF k <= 1 THEN t
    ELSE LET n == FirstNL(t, 1) IN
         IF n = 0 THEN << >> ELSE FromLine(SubSeq(t, n + 1, Len(t)), k - 1)

\* Whether line k of lines lies inside a list-style section: the last known
\* heading before it is a list-style heading.
RECURSIVE InListSection(_, _)
InListSection(lines, k) ==
    IF k <= 1 THEN FALSE
    ELSE IF normalize_heading(lines[k - 1]) \in BULLET_SECTIONS THEN TRUE
    ELSE IF IsHeading(lines[k - 1]) THEN FALSE
    ELSE InListSection(lines, k - 1)

\* C1 (as claimed): the Bullet Enforcer is idempotent: applied to its own
\* output it returns that output, for every input text.
C1_EnforceIdempotent ==
    op = "enforce_bullets_in_sections" => enforce_bullets_in_sections(out) = out

\* C2 (as claimed): the first non-blank line of the output of
\* ensure_first_section_heading is a line that normalize_heading maps to
\* PROFESSIONAL OVERVIEW, for every input text.
C2_FirstLineIsMandatedHeading ==
    op = "ensure_first_section_heading" =>
        LET ls == SplitLines(out)
            i == FirstNonBlank(ls, 1)
        IN i <= Len(ls) /\ normalize_heading(ls[i]) = PROFESSIONAL_OVERVIEW

\* C3: strip_heading_menu returns the empty text when no line of the input is
\* both non-blank and not a known heading; otherwise its output is not empty,
\* the first line of the output is the first such line of the input (up to the
\* whitespace around it) and is not a known heading.
C3_MenuStripStartPoint ==
    op = "strip_heading_menu" =>
        LET lines == SplitLines(text)
            k == FirstContentLine(lines, 1)
            outl == SplitLines(out)
        IN IF k = 0 THEN out = << >>
           ELSE /\ out # << >>
                /\ Strip(outl[1]) = Strip(lines[k])
                /\ ~IsHeading(outl[1])

\* C3 witness: three leading heading-only lines were skipped and the output
\* starts at the content line after them.
C3_Witness ==
    /\ op = "strip_heading_menu"
    /\ text = JoinLines(<< << "EDUCATION" >>, << "SKILLS" >>,
                           PROFESSIONAL_OVERVIEW, << "x" >> >>)
    /\ out = << "x" >>

\* C4 (as claimed): the part of the text from the first non-heading line to
\* the end of the text is returned verbatim.
C4_RetainedVerbatim ==
    op = "strip_heading_menu" =>
        LET k == FirstContentLine(SplitLines(text), 1)
        IN k # 0 => out = FromLine(text, k)

\* C4 (amended): the lines from the first non-heading line to the end of the
\* text are returned in order, joined by newlines, with the whitespace at the
\* two ends of the result trimmed and nothing else changed.
C4_RetainedTrimmed ==
    op = "strip_heading_menu" =>
        LET lines == SplitLines(text)
            k == FirstContentLine(lines, 1)
        IN k # 0 => out = Strip(JoinLines(SubSeq(lines, k, Len(lines))))

\* C4 witness: a menu line was dropped and two retained lines came out, the
\* first with its leading whitespace trimmed.
C4_Witness ==
    /\ op = "strip_heading_menu"
    /\ text = JoinLines(<< << "SKILLS" >>, << SP, "x", SP >>, << DASH, SP, "x" >> >>)
    /\ out = << "x", SP, NL, DASH, SP, "x" >>

\* C10: in the output of enforce_bullets_in_sections every non-blank line
\* lying between a list-style heading and the next known heading starts, after
\* leading whitespace, with "- "; a line of the input that is a known heading
\* or lies outside the list-style sections receives no prefix: it starts with
\* "- " in the output only if it did in the input.
C10_BulletPostcondition ==
    op = "enforce_bullets_in_sections" =>
        LET inl == SplitLines(text)
            outl == SplitLines(out)
        IN \A k \in 1..Len(outl) :
              /\ (InListSection(outl, k) /\ ~IsHeading(outl[k])) =>
                     (Strip(outl[k]) = << >> \/ StartsWith(LStrip(outl[k]), BULLET))
              /\ (IsHeading(inl[k]) \/ ~InListSection(inl, k)) =>
                     (StartsWith(LStrip(outl[k]), BULLET)
                          => StartsWith(LStrip(inl[k]), BULLET))

\* C10 witness: a line of SKILLS received the prefix, the line after
\* EDUCATION did not.
C10_Witness ==
    /\ op = "enforce_bullets_in_sections"
    /\ text = JoinLines(<< << "SKILLS" >>, << "x" >>, << "EDUCATION" >>, << "x" >> >>)
    /\ out = JoinLines(<< << "SKILLS" >>, << DASH, SP, "x" >>, << "EDUCATION" >>, << "x" >> >>)

\* ------------------------------------------------------------ session state
\* st.session_state.get(key): truthy when the key is present and its text is
\* not "".
Has(v) == v # << >> /\ v[1] # << >>

\* ------------------------------------------------------------ portfolio gate
\* form_is_complete(), read from the form snapshot f.
form_is_complete(f) ==
    LET has_contact == /\ NonBlank(f.name) /\ NonBlank(f.email)
                       /\ NonBlank(f.phone) /\ NonBlank(f.location)
        has_core == \/ NonBlank(f.skills_lang) \/ NonBlank(f.skills_fw)
                    \/ NonBlank(f.skills_db) \/ NonBlank(f.skills_cloud)
        has_edu == NonBlank(f.edu_inst_1) /\ NonBlank(f.edu_deg_1)
        has_proj_or_exp == \/ NonBlank(f.proj_title_1)
                           \/ (NonBlank(f.exp_comp_1) /\ NonBlank(f.exp_role_1))
    IN has_contact /\ has_core /\ has_edu /\ has_proj_or_exp

\* Whether the portfolio download button is rendered: the editor block and the
\* portfolio block both sit under "if st.session_state.get('final_text')".
portfolio_offered(ft, f) == Has(ft) /\ form_is_complete(f)

\* ------------------------------------------------------------------ SpecGate
\* The fields of the form the gate, the guard and the header block read.
ContactFields == { "name", "email", "phone", "location" }
SkillFields ==
    { "skills_lang", "skills_fw", "skills_db", "skills_cloud", "skills_soft" }
ProjTitleFields == { "proj_title_1", "proj_title_2" }
ExpSlots == { << "exp_comp_1", "exp_role_1" >>, << "exp_comp_2", "exp_role_2" >> }
FormFields ==
    ContactFields \cup SkillFields \cup ProjTitleFields
    \cup { "pro_title", "linkedin", "github", "edu_inst_1", "edu_deg_1",
           "exp_comp_1", "exp_role_1", "exp_comp_2", "exp_role_2" }

\* The snapshots explored: every field empty or filled, the name also blank;
\* title and links stay filled.
Filled == { << >>, << "a" >> }

GateForms ==
    [ name : { << >>, << SP >>, << "x" >> },
      email : Filled, phone : Filled, location : Filled,
      pro_title : { << "a" >> }, linkedin : { << "a" >> }, github : { << "a" >> },
      skills_lang : Filled, skills_fw : Filled, skills_db : Filled,
      skills_cloud : Filled, skills_soft : Filled,
      edu_inst_1 : Filled, edu_deg_1 : Filled,
      proj_title_1 : Filled, proj_title_2 : Filled,
      exp_comp_1 : Filled, exp_role_1 : Filled,
      exp_comp_2 : Filled, exp_role_2 : Filled ]

\* The final texts a session can hold: none, the empty one, a document.
GateTexts == { << >>, << << >> >>, << << "x" >> >> }

InitGate ==
    /\ form \in GateForms
    /\ final_text \in GateTexts
    /\ text = None /\ line = None /\ rec = None /\ hdr = None /\ doc = None
    /\ HF_TOKEN = None /\ editor = None
    /\ out = None
    /\ op = "none"

\* The page is rendered: the portfolio download is offered or withheld.
PortfolioGate ==
    /\ op = "none"
    /\ out' = portfolio_offered(final_text, form)
    /\ op' = "portfolio_gate"
    /\ UNCHANGED <<text, line, rec, hdr, doc, form, HF_TOKEN, final_text, editor>>

NextGate == PortfolioGate

SpecGate == InitGate /\ [][NextGate]_vars

\* C11 (as claimed): the portfolio export is offered exactly when a final text
\* exists, every contact field is filled, at least one of the five skill
\* categories is filled, education slot 1 has institute and degree, and some
\* project slot has a title or some experience slot has organization and role.
C11_GateMatchesSpec ==
    op = "portfolio_gate" =>
        (out <=>
            /\ Has(final_text)
            /\ \A k \in ContactFields : NonBlank(form[k])
            /\ \E k \in SkillFields : NonBlank(form[k])
            /\ NonBlank(form.edu_inst_1) /\ NonBlank(form.edu_deg_1)
            /\ \/ \E k \in ProjTitleFields : NonBlank(form[k])
               \/ \E e \in ExpSlots : NonBlank(form[e[1]]) /\ NonBlank(form[e[2]]))

\* ------------------------------------------------------- sanitize_plain_text
\* The replacements table: smart punctuation to its ASCII stand-in.
ReplaceSym(c) ==
    CASE c \in { BULLET_DOT, ENDASH, EMDASH } -> DASH
      [] c \in { RSQUOTE, LSQUOTE } -> "'"
      [] c \in { LDQUOTE, RDQUOTE } -> "\""
      [] c = NBSP -> SP
      [] OTHER -> c

\* ord(ch) < 128 on one symbol.
IsAscii(c) ==
    c \notin { EMDASH, ENDASH, BULLET_DOT, RSQUOTE, LSQUOTE, LDQUOTE, RDQUOTE,
               NBSP, EACUTE }

\* ln.split(): the maximal runs of symbols that are not whitespace.
RECURSIVE SplitWords(_, _)
SplitWords(l, cur) ==
    IF l = << >> THEN If(cur # << >>, cur)
    ELSE IF IsSpace(Head(l)) THEN If(cur # << >>, cur) \o SplitWords(Tail(l), << >>)
    ELSE SplitWords(Tail(l), Append(cur, Head(l)))

\* " ".join(ln.split())
CollapseSpaces(l) == JoinWith(SplitWords(l, << >>), << SP >>)

\* sanitize_plain_text: replace, collapse the whitespace of every line, then
\* turn every remaining non-ASCII character into a space.
sanitize_plain_text(t) ==
    LET replaced == [k \in 1..Len(t) |-> ReplaceSym(t[k])]
        raw == SplitLines(replaced)
        joined == JoinLines([k \in 1..Len(raw) |-> CollapseSpaces(raw[k])])
    IN [k \in 1..Len(joined) |-> IF IsAscii(joined[k]) THEN joined[k] ELSE SP]

\* -------------------------------------------------------------- SpecSanitize
MaxSanLen == 4     \* symbols of a text handed to sanitize_plain_text

SanSymbols == { SP, NL, "x", DASH, EMDASH, RSQUOTE, NBSP, EACUTE }

SanTexts == UNION { [1..n -> SanSymbols] : n \in 0..MaxSanLen }

InitSanitize ==
    /\ text \in SanTexts
    /\ line = None /\ rec = None /\ hdr = None /\ doc = None
    /\ form = None /\ HF_TOKEN = None /\ final_text = None /\ editor = None
    /\ out = None
    /\ op = "none"

SanitizePlainText ==
    /\ op = "none"
    /\ out' = sanitize_plain_text(text)
    /\ op' = "sanitize_plain_text"
    /\ UNCHANGED <<text, line, rec, hdr, doc, form, HF_TOKEN, final_text, editor>>

NextSanitize == SanitizePlainText

SpecSanitize == InitSanitize /\ [][NextSanitize]_vars

\* Whether a line has its whitespace collapsed: no space at either end and no
\* two spaces in a row.
Collapsed(l) ==
    /\ l # << >> => (l[1] # SP /\ l[Len(l)] # SP)
    /\ \A k \in 1..(Len(l) - 1) : ~(l[k] = SP /\ l[k + 1] = SP)

\* C20 (as claimed): for every input the output of sanitize_plain_text is
\* ASCII-only and every line of it has its whitespace collapsed: no leading
\* or trailing space and no two consecutive spaces.
C20_AsciiAndCollapsed ==
    op = "sanitize_plain_text" =>
        /\ \A k \in 1..Len(out) : IsAscii(out[k])
        /\ \A k \in 1..Len(SplitLines(out)) : Collapsed(SplitLines(out)[k])

\* ------------------------------------------------------------------ ats_score
\* mode = "ATS" if jd.strip() else ("SYNTH" if target_role.strip() else "QUALITY")
ScoreMode(jd, target_role) ==
    IF Strip(jd) # << >> THEN "ATS"
    ELSE IF Strip(target_role) # << >> THEN "SYNTH"
    ELSE "QUALITY"

\* The role description assigned to jd in SYNTH mode.
SynthJD(target_role, skills_text) ==
    << NL, "Role", COLON, SP >> \o target_role
    \o << NL, "Key skills to look for", COLON, SP >> \o skills_text
    \o << NL, "Focus on", COLON, SP,
          "impact statements, internships/projects relevant to", SP >>
    \o target_role \o << ",", SP, "core tools listed above.", NL >>

\* The prompt of the modes ATS and SYNTH: the f-string holds no placeholder.
ATS_PROMPT ==
    << NL, "You are an ATS assistant. Score the candidate resume against the job description from 0 to 100.",
       NL, "Return STRICT JSON with keys: score (integer 0-100), reasons (array of brief strings, max 4).",
       NL, NL, "Resume", COLON, NL, NL, "Job", SP, "Description", COLON,
       NL, NL, "Only return JSON.", NL >>

\* The prompt of the mode QUALITY: no placeholder either.
QUALITY_PROMPT ==
    << NL, "You are a resume quality checker. Score the resume from 0 to 100 on structure, completeness,",
       NL, "action verbs, measurable outcomes, readability, and section coverage for entry-level tech roles.",
       NL, "Return STRICT JSON with keys: score (integer 0-100), reasons (array of brief strings, max 4).",
       NL, NL, "Resume", COLON, NL, NL, "Only return JSON.", NL >>

\* The content of the one message sent to the model.
ScorePrompt(resume_text, jd, target_role, skills_text) ==
    LET mode == ScoreMode(jd, target_role)
        jd2 == IF mode = "SYNTH" THEN SynthJD(target_role, skills_text) ELSE jd
    IN IF mode \in { "ATS", "SYNTH" } THEN ATS_PROMPT ELSE QUALITY_PROMPT

\* int(v) on a JSON value: an integer, a number with a fraction (truncated),
\* a string holding an integer; anything else raises.  A missing key is 0.
PyInt(sv) ==
    CASE sv.t \in { "int", "float", "str" } -> [raised |-> FALSE, v |-> sv.v]
      [] sv.t = "missing" -> [raised |-> FALSE, v |-> 0]
      [] OTHER -> [raised |-> TRUE, v |-> 0]

\* Clamp with both bounds lost: the score is returned as parsed.
ClampLost(n) == n

\* max(0, min(100, score))
Clamp(n) == IF n < 0 THEN 0 ELSE IF n > 100 THEN 100 ELSE n

\* [...][:4]
FirstFour(rs) == SubSeq(rs, 1, IF Len(rs) < 4 THEN Len(rs) ELSE 4)

\* The body of the try block for one outcome of the model call: whether it
\* raised and, if not, the score and the reasons it computed.
TryScore(reply) ==
    LET failed == [raised |-> TRUE, score |-> 0, reasons |-> << >>] IN
    IF reply.kind # "object" THEN failed
    ELSE LET n == PyInt(reply.score) IN
         IF n.raised THEN failed
         ELSE IF reply.reasons.t \notin { "list", "missing" } THEN failed
         ELSE [raised |-> FALSE,
               score |-> Clamp(n.v),
               reasons |-> FirstFour([k \in 1..Len(reply.reasons.v) |->
                                          reply.reasons.v[k].v])]

\* ats_score: (score, reasons, mode); score is << >> for None.
ats_score(resume_text, jd, target_role, skills_text, reply) ==
    LET r == TryScore(reply)
        mode == ScoreMode(jd, target_role)
    IN IF r.raised THEN [score |-> << >>, reasons |-> << >>, mode |-> mode]
       ELSE [score |-> << r.score >>, reasons |-> r.reasons, mode |-> mode]

\* ------------------------------------------------------------------ SpecScore
MaxReplyReasons == 5   \* entries of the reasons array of a reply

\* JSON values under the key "score".
ScoreValues ==
    { [t |-> k, v |-> n] : k \in { "int", "float", "str" }, n \in { -5, 0, 42, 100, 150 } }
    \cup { [t |-> k, v |-> 0] : k \in { "missing", "null", "word", "list" } }

\* JSON values under the key "reasons": absent, null, a number, or an array of
\* strings and numbers (each entry with the text str() gives it).
ReasonItems == { [t |-> "str", v |-> "r"], [t |-> "num", v |-> "7"] }
ReasonValues ==
    { [t |-> "list", v |-> l] :
          l \in UNION { [1..n -> ReasonItems] : n \in 0..MaxReplyReasons } }
    \cup { [t |-> k, v |-> << >>] : k \in { "missing", "null", "num" } }

\* What the model call can come to: it raises, its response holds no text,
\* the text is not JSON, the JSON is not an object, or it is an object.
NoReply == [t |-> "missing", v |-> 0]
NoReasons == [t |-> "missing", v |-> << >>]
Replies ==
    { [kind |-> k, score |-> NoReply, reasons |-> NoReasons] :
          k \in { "raise", "no_text", "not_json", "not_object" } }
    \cup { [kind |-> "object", score |-> sv, reasons |-> rv] :
               sv \in ScoreValues, rv \in ReasonValues }

ScoreInputs ==
    [ resume_text : { << "resume" >> },
      jd : { << >>, << SP >>, << "jd" >> },
      target_role : { << >>, << SP >>, << "dev" >> },
      skills_text : { << "py", SP, PIPE, SP, SP, PIPE, SP >> } ]

InitScore ==
    /\ text = None /\ line = None /\ rec = None /\ hdr = None /\ doc = None
    /\ form = None /\ HF_TOKEN = None /\ final_text = None /\ editor = None
    /\ out = None
    /\ op = "none"

\* One call of ats_score: rec keeps the arguments and what the model call
\* came to, out the returned triple and the prompt that was sent.
AtsScore ==
    /\ op = "none"
    /\ \E a \in ScoreInputs, reply \in Replies :
          /\ rec' = [args |-> a, reply |-> reply]
          /\ out' = [ret |-> ats_score(a.resume_text, a.jd, a.target_role,
                                       a.skills_text, reply),
                     prompt |-> ScorePrompt(a.resume_text, a.jd, a.target_role,
                                            a.skills_text)]
    /\ op' = "ats_score"
    /\ UNCHANGED <<text, line, hdr, doc, form, HF_TOKEN, final_text, editor>>

NextScore == AtsScore

SpecScore == InitScore /\ [][NextScore]_vars

\* Whether the model call or the parsing of its reply failed: the call raised,
\* the reply holds no JSON object, the score is no number, or the reasons are
\* no array.
ScoreFailure(reply) ==
    \/ reply.kind # "object"
    \/ reply.score.t \in { "null", "word", "list" }
    \/ reply.reasons.t \in { "null", "num" }

\* C17: ats_score returns either "no score" (score None and no reasons) or an
\* integer score within 0..100 with at most 4 reasons; every failure of the
\* model call or of parsing its reply gives "no score", and a reply that
\* parses gives a score.
C17_ScoreOrNoScore ==
    op = "ats_score" =>
        /\ \/ (out.ret.score = << >> /\ out.ret.reasons = << >>)
           \/ (/\ out.ret.score # << >>
               /\ out.ret.score[1] \in 0..100
               /\ Len(out.ret.reasons) <= 4)
        /\ ScoreFailure(rec.reply) <=> out.ret.score = << >>

\* C17 witness: a reply with score 150 and five reasons came back as score 100
\* with the first four reasons.
C17_Witness ==
    /\ op = "ats_score"
    /\ rec.reply.kind = "object"
    /\ rec.reply.score = [t |-> "int", v |-> 150]
    /\ rec.reply.reasons.t = "list" /\ Len(rec.reply.reasons.v) = 5
    /\ out.ret.score = << 100 >>
    /\ Len(out.ret.reasons) = 4

\* s holds p as a contiguous part.
Contains(s, p) ==
    \E k \in 0..(Len(s) - Len(p)) : SubSeq(s, k + 1, k + Len(p)) = p

\* C18 (as claimed): the prompt sent to the model contains the resume text,
\* plus the job description in mode ATS or the role description built from
\* the target role in mode SYNTH; the mode is ATS with a job description,
\* SYNTH with only a target role, QUALITY with neither.
C18_PromptCarriesInputs ==
    op = "ats_score" =>
        LET a == rec.args IN
        /\ out.ret.mode = (IF NonBlank(a.jd) THEN "ATS"
                           ELSE IF NonBlank(a.target_role) THEN "SYNTH"
                           ELSE "QUALITY")
        /\ Contains(out.prompt, a.resume_text)
        /\ out.ret.mode = "ATS" => Contains(out.prompt, a.jd)
        /\ out.ret.mode = "SYNTH" =>
               Contains(out.prompt, SynthJD(a.target_role, a.skills_text))

\* ------------------------------------------------------------------ renderers
\* is_project_or_pub_title_line(line)
is_project_or_pub_title_line(l) ==
    /\ Strip(l) # << >>
    /\ \A k \in 1..Len(l) : l[k] # COLON
    /\ Strip(l)[1] # DASH

\* The header loop of export_pdf ("for _ in range(4)"): the value of
\* body_start when the loop ends.
RECURSIVE PdfHeaderSplit(_, _, _)
PdfHeaderSplit(lines, body_start, rounds) ==
    IF rounds = 0 THEN body_start
    ELSE IF /\ body_start < Len(lines)
            /\ lines[body_start + 1] # << >>
            /\ normalize_heading(lines[body_start + 1]) \notin HEADINGS
         THEN PdfHeaderSplit(lines, body_start + 1, rounds - 1)
         ELSE body_start

\* The body writer of export_pdf for the lines from position at on: the
\* drawing calls, each with the line it draws.
RECURSIVE PdfBody(_, _, _)
PdfBody(lines, at, st) ==
    IF at > Len(lines) THEN << >>
    ELSE LET l == Strip(lines[at]) IN
         IF l = << >> THEN PdfBody(lines, at + 1, st)
         ELSE IF normalize_heading(l) \in HEADINGS
         THEN If(st.first_section_written, [kind |-> "divider", at |-> at, text |-> << >>])
              \o << [kind |-> "heading", at |-> at, text |-> normalize_heading(l)] >>
              \o PdfBody(lines, at + 1,
                         [first_section_written |-> TRUE,
                          in_projects |-> normalize_heading(l) = << "PROJECTS" >>,
                          in_publications |-> normalize_heading(l) = << "PUBLICATIONS" >>])
         ELSE IF (st.in_projects \/ st.in_publications) /\ is_project_or_pub_title_line(l)
         THEN << [kind |-> "title", at |-> at, text |-> l] >> \o PdfBody(lines, at + 1, st)
         ELSE << [kind |-> "para", at |-> at, text |-> l] >> \o PdfBody(lines, at + 1, st)

\* export_pdf(text, name): the centered header lines and the drawing calls of
\* the body.
export_pdf(t) ==
    LET lines == SplitLines(sanitize_plain_text(t))
        body_start == PdfHeaderSplit(lines, 0, 4)
    IN [hdr |-> SubSeq(lines, 1, body_start),
        body |-> PdfBody(lines, body_start + 1,
                         [first_section_written |-> FALSE, in_projects |-> FALSE,
                          in_publications |-> FALSE])]

\* The header loop of export_docx ("for k in range(4)"): the value of idx when
\* the loop ends.
RECURSIVE DocxHeaderSplit(_, _, _)
DocxHeaderSplit(lines, idx, k) ==
    IF k >= 4 THEN idx
    ELSE IF /\ idx < Len(lines)
            /\ lines[idx + 1] # << >>
            /\ normalize_heading(lines[idx + 1]) \notin HEADINGS
         THEN DocxHeaderSplit(lines, idx + 1, k + 1)
         ELSE idx

\* The body loop of export_docx for the lines from position at on: the
\* paragraphs added, each with the line it holds.
RECURSIVE DocxBody(_, _, _)
DocxBody(lines, at, st) ==
    IF at > Len(lines) THEN << >>
    ELSE LET l == Strip(lines[at]) IN
         IF l = << >> THEN DocxBody(lines, at + 1, st)
         ELSE IF normalize_heading(l) \in HEADINGS
         THEN If(st.first_section_written, [kind |-> "gap", at |-> at, text |-> << >>])
              \o << [kind |-> "heading", at |-> at, text |-> normalize_heading(l)] >>
              \o DocxBody(lines, at + 1,
                          [first_section_written |-> TRUE,
                           in_projects |-> normalize_heading(l) = << "PROJECTS" >>,
                           in_publications |-> normalize_heading(l) = << "PUBLICATIONS" >>])
         ELSE IF (st.in_projects \/ st.in_publications) /\ is_project_or_pub_title_line(l)
         THEN << [kind |-> "title", at |-> at, text |-> l] >> \o DocxBody(lines, at + 1, st)
         ELSE << [kind |-> "para", at |-> at, text |-> l] >> \o DocxBody(lines, at + 1, st)

\* export_docx(text, name): the centered header paragraphs and the paragraphs
\* of the body.
export_docx(t) ==
    LET lines == SplitLines(sanitize_plain_text(t))
        idx == DocxHeaderSplit(lines, 0, 0)
    IN [hdr |-> SubSeq(lines, 1, idx),
        body |-> DocxBody(lines, idx + 1,
                          [first_section_written |-> FALSE, in_projects |-> FALSE,
                           in_publications |-> FALSE])]

\* The sections build_portfolio_html emits, in this order, when present.
wanted ==
    << PROFESSIONAL_OVERVIEW,
       << "EDUCATION" >>,
       << "SKILLS" >>,
       << "EXPERIENCE", SP, SLASH, SP, "INTERNSHIPS" >>,
       << "PROJECTS" >>,
       << "PUBLICATIONS" >>,
       << "CERTIFICATIONS", SP, SLASH, SP, "HANDS", DASH, "ON" >>,
       << "ACHIEVEMENTS" >>,
       << "PARTICIPATIONS" >>,
       << "POSITIONS", SP, "OF", SP, "RESPONSIBILITY", SP, SLASH, SP,
          "CO", DASH, "CURRICULAR", SP, "INVOLVEMENT" >> >>

\* [k for k in wanted if k in blocks and blocks[k].strip()]
RECURSIVE WantedPresent(_, _)
WantedPresent(blocks, k) ==
    IF k > Len(wanted) THEN << >>
    ELSE If(wanted[k] \in DOMAIN blocks /\ Strip(blocks[wanted[k]]) # << >>, wanted[k])
         \o WantedPresent(blocks, k + 1)

\* build_portfolio_html(full_text, ...): the section blocks and the headings
\* of the sections written into index.html.
build_portfolio_html(full_text) ==
    LET r == extract_section_blocks(full_text)
    IN [blocks |-> r.blocks, order |-> r.order,
        sections |-> WantedPresent(r.blocks, 1)]

\* ----------------------------------------------------------------- generation
\* build_header_lines(): h1..h4 from the form.
build_header_lines(f) ==
    << Upper(f.name) \o SEP_EMDASH \o f.pro_title,
       IF Strip(f.location) # << >> THEN Strip(f.location) ELSE << >>,
       join_nonempty(<< << "Email", COLON, SP >> \o f.email,
                        << "Phone", COLON, SP >> \o f.phone >>, SEP_PIPE),
       join_nonempty(<< << "LinkedIn", COLON, SP >> \o f.linkedin,
                        << "GitHub", COLON, SP >> \o f.github >>, SEP_PIPE) >>

\* Steps 4 and 5 of the generation: the reply is stripped and run through the
\* three passes, then the header lines that are not empty are put in front.
compose_final_text(f, content) ==
    LET body == enforce_bullets_in_sections(
                    ensure_first_section_heading(
                        strip_heading_menu(Strip(content)), PROFESSIONAL_OVERVIEW))
        header_lines == KeepTruthy(build_header_lines(f))
    IN JoinLines(header_lines) \o << NL, NL >> \o body

\* generation with the guard lost: the model is called whatever the form and
\* the credential hold.
generation_unguarded(f, token, r) ==
    IF r.kind # "ok"
    THEN [called |-> TRUE, message |-> "error", stored |-> FALSE, final_text |-> << >>]
    ELSE [called |-> TRUE, message |-> "success", stored |-> TRUE,
          final_text |-> compose_final_text(f, r.content)]

\* generation with the session written before the reply is read: a failed
\* call leaves the bare header block behind.
generation_stores_early(f, token, r) ==
    IF ~Truthy(f.name) \/ ~Truthy(f.email)
    THEN [called |-> FALSE, message |-> "warning", stored |-> FALSE, final_text |-> << >>]
    ELSE IF ~Truthy(token)
    THEN [called |-> FALSE, message |-> "error", stored |-> FALSE, final_text |-> << >>]
    ELSE IF r.kind # "ok"
    THEN [called |-> TRUE, message |-> "error", stored |-> TRUE,
          final_text |-> JoinLines(KeepTruthy(build_header_lines(f))) \o << NL, NL >>]
    ELSE [called |-> TRUE, message |-> "success", stored |-> TRUE,
          final_text |-> compose_final_text(f, r.content)]

\* The "if submitted:" block: the guard, then the try block for one outcome r
\* of the model call.  called: the model was called; stored: the two session
\* keys are written with final_text.
generation(f, token, r) ==
    IF ~Truthy(f.name) \/ ~Truthy(f.email)
    THEN [called |-> FALSE, message |-> "warning", stored |-> FALSE, final_text |-> << >>]
    ELSE IF ~Truthy(token)
    THEN [called |-> FALSE, message |-> "error", stored |-> FALSE, final_text |-> << >>]
    ELSE IF r.kind # "ok"
    THEN [called |-> TRUE, message |-> "error", stored |-> FALSE, final_text |-> << >>]
    ELSE [called |-> TRUE, message |-> "success", stored |-> TRUE,
          final_text |-> compose_final_text(f, r.content)]

\* st.session_state.setdefault("editor", st.session_state["final_text"])
SetDefault(ed, ft) == IF ed = << >> THEN ft ELSE ed

\* ---------------------------------------------------------------- SpecSession
\* A form that passes the guard and the portfolio gate.
CompleteForm ==
    [ name |-> << "x" >>, email |-> << "e" >>, phone |-> << "p" >>,
      location |-> << "city" >>, pro_title |-> << "title" >>,
      linkedin |-> << "l" >>, github |-> << "g" >>,
      skills_lang |-> << "py" >>, skills_fw |-> << >>, skills_db |-> << >>,
      skills_cloud |-> << >>, skills_soft |-> << >>,
      edu_inst_1 |-> << "a" >>, edu_deg_1 |-> << "b" >>,
      proj_title_1 |-> << "t" >>, proj_title_2 |-> << >>,
      exp_comp_1 |-> << >>, exp_role_1 |-> << >>,
      exp_comp_2 |-> << >>, exp_role_2 |-> << >>,
      job_desc |-> << >>, target_role |-> << "dev" >> ]

\* The form before anything is entered.
BlankForm == [k \in DOMAIN CompleteForm |-> << >>]

\* The form snapshots a submission can carry: complete, without name, without email,
\* without location (a three-line header, the gate closed).
SessionForms ==
    { CompleteForm,
      [CompleteForm EXCEPT !.name = << >>],
      [CompleteForm EXCEPT !.email = << >>],
      [CompleteForm EXCEPT !.location = << >>] }

\* The replies of the drafting model: nothing; a heading menu before the
\* content; a well-formed draft; the first heading with two colons; a heading
\* in lower case after the overview; a heading spelled with an en dash.
ReplyTexts ==
    { << >>,
      JoinLines(<< << "EDUCATION" >>, << "SKILLS" >>, << "x" >> >>),
      JoinLines(<< PROFESSIONAL_OVERVIEW, << "x" >>, << >>, << "SKILLS" >>, << "x" >> >>),
      JoinLines(<< PROFESSIONAL_OVERVIEW \o << COLON, COLON >>, << "x" >> >>),
      JoinLines(<< PROFESSIONAL_OVERVIEW, << "x" >>, << "education", COLON >>, << "x" >> >>),
      JoinLines(<< PROFESSIONAL_OVERVIEW, << "x" >>,
                   << "CERTIFICATIONS", SP, SLASH, SP, "HANDS", ENDASH, "ON" >>,
                   << "x" >> >>) }

\* What the model call of a generation can come to: it raises, its response
\* holds no text, or it holds a reply.
ModelOutcomes ==
    { [kind |-> k, content |-> << >>] : k \in { "raise", "no_content" } }
    \cup { [kind |-> "ok", content |-> t] : t \in ReplyTexts }

\* What the user can leave in the editor: nothing, a bare line, a header line
\* followed by a list section with an unbulleted line.
EditorTexts ==
    { << >>,
      << "x" >>,
      << "X", NL, NL, "SKILLS", NL, "x" >> }

\* What the model call of a scoring can come to.
SessionReplies ==
    { [kind |-> "raise", score |-> NoReply, reasons |-> NoReasons],
      [kind |-> "object", score |-> [t |-> "int", v |-> 42], reasons |-> NoReasons] }

\* What out holds in a session when the last interaction returned nothing.
NoOutput == [nothing |-> TRUE]

InitSession ==
    /\ form = BlankForm
    /\ HF_TOKEN \in { << >>, << "hf" >> }
    /\ final_text = << >>
    /\ editor = << >>
    /\ text = None /\ line = None /\ rec = None /\ hdr = None /\ doc = None
    /\ out = NoOutput
    /\ op = "none"

\* "Generate Resume" is submitted: the fields sit in an st.form, so the
\* submission is what hands their values to the script.
Generate ==
    /\ \E f \in SessionForms, r \in ModelOutcomes :
          LET g == generation(f, HF_TOKEN, r) IN
          /\ form' = f
          /\ final_text' = IF g.stored THEN << g.final_text >> ELSE final_text
          /\ editor' = IF g.stored THEN << g.final_text >> ELSE editor
          /\ out' = [called |-> g.called, message |-> g.message]
    /\ op' = "generate"
    /\ UNCHANGED <<text, line, rec, hdr, doc, HF_TOKEN>>

\* The user types into the editor, shown once a final text exists.
EditEditor ==
    /\ Has(final_text)
    /\ \E t \in EditorTexts :
          /\ << t >> # editor
          /\ editor' = << t >>
    /\ op' = "edit"
    /\ out' = NoOutput
    /\ UNCHANGED <<text, line, rec, hdr, doc, form, HF_TOKEN, final_text>>

\* SaveChanges with line 868 lost: the editor text is not copied.
SaveChangesLeavesFinalText ==
    /\ Has(final_text)
    /\ editor' = SetDefault(editor, final_text)
    /\ op' = "save_changes"
    /\ out' = NoOutput
    /\ UNCHANGED <<text, line, rec, hdr, doc, form, HF_TOKEN, final_text>>

\* "Save changes" is pressed.
SaveChanges ==
    /\ Has(final_text)
    /\ final_text' = SetDefault(editor, final_text)
    /\ editor' = SetDefault(editor, final_text)
    /\ op' = "save_changes"
    /\ out' = NoOutput
    /\ UNCHANGED <<text, line, rec, hdr, doc, form, HF_TOKEN>>

\* The sidebar score is computed.
Score ==
    /\ Has(final_text)
    /\ \E reply \in SessionReplies :
          out' = ats_score(final_text[1], form.job_desc, form.target_role,
                           JoinWith(<< form.skills_lang, form.skills_fw, form.skills_db,
                                       form.skills_cloud, form.skills_soft >>, SEP_PIPE),
                           reply)
    /\ op' = "ats_score"
    /\ UNCHANGED <<text, line, rec, hdr, doc, form, HF_TOKEN, final_text, editor>>

\* ExportTxt writing what it produced back into the session.
ExportTxtStoresSanitized ==
    /\ Has(final_text)
    /\ out' = [txt |-> sanitize_plain_text(final_text[1])]
    /\ final_text' = << sanitize_plain_text(final_text[1]) >>
    /\ op' = "export_txt"
    /\ UNCHANGED <<text, line, rec, hdr, doc, form, HF_TOKEN, editor>>

ExportPdf ==
    /\ Has(final_text)
    /\ out' = export_pdf(final_text[1])
    /\ op' = "export_pdf"
    /\ UNCHANGED <<text, line, rec, hdr, doc, form, HF_TOKEN, final_text, editor>>

ExportDocx ==
    /\ Has(final_text)
    /\ out' = export_docx(final_text[1])
    /\ op' = "export_docx"
    /\ UNCHANGED <<text, line, rec, hdr, doc, form, HF_TOKEN, final_text, editor>>

ExportTxt ==
    /\ Has(final_text)
    /\ out' = [txt |-> sanitize_plain_text(final_text[1])]
    /\ op' = "export_txt"
    /\ UNCHANGED <<text, line, rec, hdr, doc, form, HF_TOKEN, final_text, editor>>

ExportPortfolio ==
    /\ portfolio_offered(final_text, form)
    /\ out' = build_portfolio_html(final_text[1])
    /\ op' = "export_portfolio"
    /\ UNCHANGED <<text, line, rec, hdr, doc, form, HF_TOKEN, final_text, editor>>

NextSession ==
    \/ Generate
    \/ EditEditor
    \/ SaveChanges
    \/ Score
    \/ ExportPdf
    \/ ExportDocx
    \/ ExportTxt
    \/ ExportPortfolio

SpecSession == InitSession /\ [][NextSession]_vars

\* ------------------------------------------------------ claims on the session
\* C12: when Generate is submitted with an empty name or email, or without a
\* model credential, the model is not called and final_text and editor are
\* what they were before the submission.
C12_AbortedWithoutCall ==
    [][ (op' = "generate"
            /\ (form'.name = << >> \/ form'.email = << >> \/ HF_TOKEN = << >>)) =>
        (~out'.called /\ final_text' = final_text /\ editor' = editor) ]_vars

\* C12 witness: a submission without a name was aborted without a model call
\* while the session still holds the document of an earlier generation.
C12_Witness ==
    /\ op = "generate"
    /\ form.name = << >>
    /\ ~out.called /\ out.message = "warning"
    /\ Has(final_text) /\ editor = final_text

\* C13: a generation whose model call or response processing raises writes
\* nothing: final_text and editor keep their values (absent when there was no
\* earlier result).  A generation that succeeds stores, in both keys, the
\* header block followed by the fully normalized reply, so the final text is
\* at every moment absent, such a complete document, or a text the user saved.
C13_NoPartialDocument ==
    [][ /\ (op' = "generate" /\ out'.called /\ out'.message # "success") =>
               (final_text' = final_text /\ editor' = editor)
        /\ (op' = "generate" /\ out'.message = "success") =>
               /\ \E t \in ReplyTexts : final_text' = << compose_final_text(form', t) >>
               /\ editor' = final_text'
        /\ final_text' # << >> =>
               \/ final_text'[1] \in EditorTexts
               \/ \E f \in SessionForms, t \in ReplyTexts :
                      final_text'[1] = compose_final_text(f, t) ]_vars

\* C13 witness: the model call of a generation failed and the document of the
\* earlier generation is still in the session.
C13_Witness ==
    /\ op = "generate"
    /\ out.called /\ out.message = "error"
    /\ Has(final_text)
    /\ \E t \in ReplyTexts : final_text = << compose_final_text(form, t) >>

\* The operations that render the final text.
RenderOps == { "export_pdf", "export_docx", "export_portfolio" }

\* C14 (as claimed): whenever a renderer runs, the body of the final text (what
\* follows the header block) has PROFESSIONAL OVERVIEW as its first non-blank
\* line, spells every heading line canonically, and has the bullet prefix on
\* every non-blank line of a list-style section.
C14_RenderedTextNormalized ==
    op \in RenderOps =>
        LET lines == SplitLines(final_text[1])
            i == SkipHeader(lines, 0)
            body == SubSeq(lines, i + 1, Len(lines))
            j == FirstNonBlank(body, 1)
        IN /\ j <= Len(body) /\ normalize_heading(body[j]) = PROFESSIONAL_OVERVIEW
           /\ \A k \in 1..Len(body) :
                 IsHeading(body[k]) => body[k] = normalize_heading(body[k])
           /\ \A k \in 1..Len(body) :
                 (InListSection(body, k) /\ ~IsHeading(body[k])) =>
                     (Strip(body[k]) = << >> \/ StartsWith(LStrip(body[k]), BULLET))

\* The positions of the lines a renderer drew as section headings.
HeadingLines(items) ==
    { items[k].at : k \in { n \in 1..Len(items) : items[n].kind = "heading" } }

\* C16 (as claimed): for the final text a renderer consumes, export_pdf,
\* export_docx and extract_section_blocks take the same leading lines as the
\* header block and recognize the same remaining lines as section headings.
C16_SameClassification ==
    op \in RenderOps =>
        LET t == final_text[1]
            lines == SplitLines(t)
            i == SkipHeader(lines, 0)
            pdf == export_pdf(t)
            docx == export_docx(t)
        IN /\ Len(pdf.hdr) = i /\ Len(docx.hdr) = i
           /\ HeadingLines(pdf.body) = { k \in (i + 1)..Len(lines) : IsHeading(lines[k]) }
           /\ HeadingLines(docx.body) = HeadingLines(pdf.body)

\* The operations that read the final text without being meant to change it.
ReadOps == { "export_pdf", "export_docx", "export_txt", "export_portfolio", "ats_score" }

\* C19: the exports (PDF, DOCX, TXT, portfolio) and the scoring leave
\* final_text and editor unchanged; final_text changes only in a successful
\* generation or in Save changes.
C19_ExportsReadOnly ==
    [][ /\ op' \in ReadOps => (final_text' = final_text /\ editor' = editor)
        /\ final_text' # final_text =>
               \/ (op' = "generate" /\ out'.message = "success")
               \/ op' = "save_changes" ]_vars

\* C19 witness: the TXT export produced a text that differs from the final
\* text, while unsaved edits sit in the editor.
C19_Witness ==
    /\ op = "export_txt"
    /\ Has(final_text)
    /\ out.txt # final_text[1]
    /\ editor # final_text

\* ------------------------------------------- claim on the heading tests
\* C15 (as claimed): the three passes decide on every line of their input as
\* normalize_heading does: Menu-Strip and the Bullet Enforcer take a line for
\* a heading exactly when normalize_heading maps it into HEADINGS, and the
\* First-Heading-Ensurer takes a line for the mandated heading exactly when
\* normalize_heading maps it to PROFESSIONAL OVERVIEW.
C15_SameHeadingTest ==
    op # "none" =>
        \A k \in 1..Len(SplitLines(text)) :
            LET l == SplitLines(text)[k] IN
            /\ (normalize_heading(Strip(l)) \in HEADINGS) <=> IsHeading(l)
            /\ (normalize_heading(RStrip(l)) \in HEADINGS) <=> IsHeading(l)
            /\ FirstIsHeading(RStrip(l), PROFESSIONAL_OVERVIEW)
                   <=> (normalize_heading(l) = PROFESSIONAL_OVERVIEW)

\* --------------------------------------- claim on the enforcer's line frame
\* C21 (as claimed): the Bullet Enforcer passes every known-heading line
\* through unchanged, whether it is a list-style heading or any other known
\* heading, and keeps the line frame: the output has as many lines as the
\* input, and a line of the output is blank exactly when the line at the same
\* position of the input is blank.
C21_HeadingsAndFramePreserved ==
    op = "enforce_bullets_in_sections" =>
        LET lines == SplitLines(text)
            res   == SplitLines(out) IN
        /\ Len(res) = Len(lines)
        /\ \A k \in 1..Len(lines) :
               /\ IsHeading(lines[k]) => res[k] = lines[k]
               /\ (Strip(res[k]) = << >>) <=> (Strip(lines[k]) = << >>)

\* ------------------------------------------------------------- SpecPortfolio
\* What can stand between the header block and the first known heading of a
\* final text: nothing, or lines that are no known heading (the first
\* heading written with two colons passes the three passes as it is).
Preambles ==
    { << >>,
      PROFESSIONAL_OVERVIEW \o << COLON, COLON, NL, "x" >> }

\* The final text: the header block, a blank line, then the preamble (if
\* any) and the sections, separated by blank lines.
PortfolioText(h, pre, d) ==
    JoinLines(h) \o << NL, NL >>
    \o JoinWith(If(pre # << >>, pre)
                \o [k \in 1..Len(d) |-> SectionText(d[k])], << NL, NL >>)

InitPortfolio ==
    /\ hdr \in { SubSeq(HeaderLines, 1, n) : n \in 1..MaxHeaderLines }
    /\ text \in Preambles
    /\ doc = << >>
    /\ line = None /\ rec = None
    /\ form = None /\ HF_TOKEN = None /\ final_text = None /\ editor = None
    /\ out = None
    /\ op = "none"

\* One more section of the final text: any known heading, repeated or not,
\* in any order, with any body.
AddAnySection ==
    /\ op = "none"
    /\ Len(doc) < MaxSections
    /\ \E h \in HEADINGS, b \in Bodies :
          doc' = Append(doc, [heading |-> h, body |-> b])
    /\ UNCHANGED <<text, line, rec, hdr, out, op, form, HF_TOKEN, final_text, editor>>

BuildPortfolioHtml ==
    /\ op = "none"
    /\ out' = build_portfolio_html(PortfolioText(hdr, text, doc))
    /\ op' = "build_portfolio_html"
    /\ UNCHANGED <<text, line, rec, hdr, doc, form, HF_TOKEN, final_text, editor>>

NextPortfolio == AddAnySection \/ BuildPortfolioHtml

SpecPortfolio == InitPortfolio /\ [][NextPortfolio]_vars

\* The position of a heading in the canonical order of the page (0: not a
\* heading of the page).
WantedIndex(h) ==
    IF \E k \in 1..Len(wanted) : wanted[k] = h
    THEN CHOOSE k \in 1..Len(wanted) : wanted[k] = h
    ELSE 0

\* The sections of the final text under heading h.
SectionsOf(d, h) == { k \in 1..Len(d) : d[k].heading = h }

\* C22 (as claimed): the sections of the portfolio page are whitelisted
\* headings (never TARGET ROLE), each at most once and in the canonical
\* order, whatever the order and repetition of the headings in the final
\* text; a section is on the page only if the final text holds a non-empty
\* body under its heading, and a whitelisted heading whose bodies in the
\* final text are all non-empty has its section on the page.
C22_PortfolioSections ==
    op = "build_portfolio_html" =>
        LET secs == out.sections IN
        /\ \A i \in 1..Len(secs) : WantedIndex(secs[i]) > 0
        /\ \A i, j \in 1..Len(secs) :
               i < j => WantedIndex(secs[i]) < WantedIndex(secs[j])
        /\ \A i \in 1..Len(secs) :
               \E k \in SectionsOf(doc, secs[i]) : Strip(doc[k].body) # << >>
        /\ \A h \in HEADINGS :
               (/\ WantedIndex(h) > 0
                /\ SectionsOf(doc, h) # { }
                /\ \A k \in SectionsOf(doc, h) : Strip(doc[k].body) # << >>)
               => \E i \in 1..Len(secs) : secs[i] = h

\* ------------------------------------------------ claims on the session text
\* C23 (as claimed): once a generation has succeeded, the editor and the
\* downloads stay available: a state that holds a final text to export is
\* followed by such states only, whatever the user does next (editing, Save
\* changes with any editor contents, rejected or failed generations).
C23_FinalTextStays ==
    [][ Has(final_text) => Has(final_text') ]_vars

\* C24: a run that performed a successful generation ends with the editor
\* and final_text both holding the newly composed text (header block, blank
\* line, normalized body) whatever was in the editor before, and a run that
\* performed Save changes ends with final_text holding what the editor held,
\* the editor unchanged; so after either the editor contents equal
\* final_text.
C24_EditorEqualsFinalText ==
    [][ /\ (op' = "generate" /\ out'.message = "success") =>
              /\ editor' = final_text'
              /\ \E r \in ReplyTexts :
                     final_text' = << compose_final_text(form', r) >>
        /\ op' = "save_changes" =>
              /\ final_text' = editor
              /\ editor' = editor ]_vars

\* C24 witness: Save changes has copied an edited text, which no generation
\* composes, into final_text.
C24_Witness ==
    /\ op = "save_changes"
    /\ final_text = << << "x" >> >>
    /\ editor = final_text

\* ---------------------------------------------------------------- SpecRender
\* The lines of a reply of the drafting model: blank, a plain line, a bullet,
\* a labelled line, the headings of the two sections with entry titles, a
\* PUBLICATIONS heading decorated with a character outside ASCII, another
\* known heading.
RenderShapes ==
    { << >>,
      << "x" >>,
      << DASH, SP, "x" >>,
      << "x", COLON, SP, "x" >>,
      << "PROJECTS" >>,
      << "PUBLICATIONS" >>,
      << EACUTE, SP, "PUBLICATIONS" >>,
      << "EDUCATION" >> }

RenderReplies ==
    { JoinLines(ls) : ls \in UNION { [1..n -> RenderShapes] : n \in 0..MaxLines } }

InitRender ==
    /\ text \in RenderReplies
    /\ form = CompleteForm
    /\ HF_TOKEN = << "hf" >>
    /\ final_text = << >>
    /\ editor = << >>
    /\ line = None /\ rec = None /\ hdr = None /\ doc = None
    /\ out = NoOutput
    /\ op = "none"

\* The submission whose model call returns the reply text; the document it
\* stores is rendered as it is.
GenerateFromReply ==
    /\ op = "none"
    /\ LET g == generation(form, HF_TOKEN, [kind |-> "ok", content |-> text]) IN
          /\ final_text' = IF g.stored THEN << g.final_text >> ELSE final_text
          /\ editor' = IF g.stored THEN << g.final_text >> ELSE editor
          /\ out' = [called |-> g.called, message |-> g.message]
    /\ op' = "generate"
    /\ UNCHANGED <<text, line, rec, hdr, doc, form, HF_TOKEN>>

NextRender == GenerateFromReply \/ ExportPdf \/ ExportDocx

SpecRender == InitRender /\ [][NextRender]_vars

\* The known heading the line at position k of lines stands under, None
\* before the first one.
RECURSIVE SectionAt(_, _)
SectionAt(lines, k) ==
    IF k <= 1 THEN None
    ELSE IF IsHeading(lines[k - 1]) THEN normalize_heading(lines[k - 1])
    ELSE SectionAt(lines, k - 1)

\* The heading drawn last before item k of a rendered body.
RECURSIVE DrawnSection(_, _)
DrawnSection(items, k) ==
    IF k <= 1 THEN None
    ELSE IF items[k - 1].kind = "heading" THEN items[k - 1].text
    ELSE DrawnSection(items, k - 1)

\* C25 (as claimed): in a final text that the pipeline produced and nobody
\* edited, no line of a PUBLICATIONS section passes the entry-title test, and
\* so what the PDF and the DOCX renderer draw as a bold entry title stands
\* under the PROJECTS heading, never under another one.
C25_TitlesOnlyInProjects ==
    /\ Has(final_text) =>
           LET lines == SplitLines(final_text[1]) IN
           \A k \in 1..Len(lines) :
               (SectionAt(lines, k) = << "PUBLICATIONS" >> /\ ~IsHeading(lines[k]))
                   => ~is_project_or_pub_title_line(lines[k])
    /\ op \in { "export_pdf", "export_docx" } =>
           \A k \in 1..Len(out.body) :
               out.body[k].kind = "title"
                   => DrawnSection(out.body, k) = << "PROJECTS" >>

====
